---- MODULE Spec2Model ----
(***************************************************************************)
(* Multi-phase episode composers of gym-minigrid:                          *)
(*   ThreePhaseDelayedReward      (envs/delayed_reward_multiphase.py)      *)
(*   KeyToGiftsToDoorKeyOptional  (envs/key_to_gifts_to_door.py)           *)
(* together with the phase environments they stitch: KeyEnv, GiftsEnv,     *)
(* DoorKeyOptionalEnv and GoalKeyOptionalEnv, and with KeyGoalEnv          *)
(* (envs/keygoal.py) and the phase environments used on their own.         *)
(*                                                                         *)
(* Representation.  Python's None is "None" where a string is expected     *)
(* (key_color), NoObj where a WorldObj is expected (carrying), NoneIdx     *)
(* for _env_idx and NoneSeed for a seed.  A kwargs dict is a TLA+ record.  *)
(* A raised exception is the `raised` field of the last call's outcome.    *)
(* Rewards are real numbers in the code; here a reward r is the integer    *)
(* r * RewardUnit, which is exact for every reward the phases compute.     *)
(* The grid geometry is abstracted to the cell in front of the agent,      *)
(* which is an input of every step.                                        *)
(***************************************************************************)
EXTENDS Integers, Sequences, FiniteSets, TLC

\* ---------------------------------------------------------------- bounds
\* step budget (max_steps) given to every phase that has one; the
\* registered compositions use 36 .. 320
StepBudget == 2
\* steps a caller may still forward to an environment whose budget is spent
MaxOverrun == 2
\* reset calls per run
MaxResets == 2
\* seed calls per run
MaxSeedCalls == 1

\* ------------------------------------------------------------- constants
DefaultWrapperSeed == 111
DefaultEnvSeed == 1337
\* the value a caller passes to seed(value)
CallerSeed == 5
NoneIdx == 0 - 1
NoneSeed == 0 - 1
None == "None"
NoObj == [type |-> "None", color |-> "None"]
Key(color) == [type |-> "key", color |-> color]
RewardUnit == 10 * StepBudget
\* a reward given in tenths, in reward units
Tenths(x) == x * StepBudget
\* a gift_reward argument: a scalar r, or a list/tuple [lo, hi]
Scalar(r) == [list |-> FALSE, lo |-> r, hi |-> r]
Range(lo, hi) == [list |-> TRUE, lo |-> lo, hi |-> hi]
\* the attribute _gift_reward: never assigned, or the list [lo, hi]
NoGiftReward == [set |-> FALSE, lo |-> 0, hi |-> 0]
GiftReward(lo, hi) == [set |-> TRUE, lo |-> lo, hi |-> hi]

\* the actions of MiniGridEnv.Actions that differ in this abstraction
\* ("right" and "done" act as "left": no effect on what the phases read)
Actions == {"left", "forward", "pickup", "drop", "toggle"}
\* what the cell in front of the agent holds
FrontCells == {"empty", "wall", "key", "goal", "gift", "door"}

\* ------------------------------------------------- constructor signatures
KeyEnvParams ==
    {"size", "key_color", "start_by_key", "max_steps", "done_when_fetched", "seed"}
GiftsEnvParams ==
    {"size", "num_objs", "gift_reward", "max_steps", "done_when_all_opened", "seed"}
DoorKeyOptionalEnvParams ==
    {"size", "carrying", "door_color", "door_reward", "max_steps", "seed", "goal_reward"}
GoalKeyOptionalEnvParams ==
    {"size", "carrying", "key_reward", "max_steps", "seed", "goal_reward",
     "done_when_goal_reached"}
KeyGoalEnvParams ==
    {"size", "key_color", "key_reward", "max_steps", "seed"}

Params(cls) ==
    CASE cls = "KeyEnv" -> KeyEnvParams
      [] cls = "GiftsEnv" -> GiftsEnvParams
      [] cls = "DoorKeyOptionalEnv" -> DoorKeyOptionalEnvParams
      [] cls = "GoalKeyOptionalEnv" -> GoalKeyOptionalEnvParams
      [] cls = "KeyGoalEnv" -> KeyGoalEnvParams

\* the defaults of the signatures (max_steps defaults are never used by a
\* composition below: each sets max_steps itself)
KeyEnvDefaults ==
    [size |-> 8, key_color |-> "yellow", start_by_key |-> FALSE,
     max_steps |-> StepBudget, done_when_fetched |-> FALSE, seed |-> DefaultEnvSeed]
GiftsEnvDefaults ==
    [size |-> 8, num_objs |-> 3, gift_reward |-> Scalar(Tenths(100)),
     max_steps |-> StepBudget, done_when_all_opened |-> FALSE, seed |-> DefaultEnvSeed]
DoorKeyOptionalEnvDefaults ==
    [size |-> 8, carrying |-> NoObj, door_color |-> "yellow", door_reward |-> 0,
     max_steps |-> StepBudget, seed |-> DefaultEnvSeed, goal_reward |-> Tenths(10)]
GoalKeyOptionalEnvDefaults ==
    [size |-> 8, carrying |-> NoObj, key_reward |-> Tenths(30),
     max_steps |-> StepBudget, seed |-> DefaultEnvSeed, goal_reward |-> Tenths(10),
     done_when_goal_reached |-> TRUE]
KeyGoalEnvDefaults ==
    [size |-> 8, key_color |-> "yellow", key_reward |-> Tenths(30),
     max_steps |-> StepBudget, seed |-> DefaultEnvSeed]

Defaults(cls) ==
    CASE cls = "KeyEnv" -> KeyEnvDefaults
      [] cls = "GiftsEnv" -> GiftsEnvDefaults
      [] cls = "DoorKeyOptionalEnv" -> DoorKeyOptionalEnvDefaults
      [] cls = "GoalKeyOptionalEnv" -> GoalKeyOptionalEnvDefaults
      [] cls = "KeyGoalEnv" -> KeyGoalEnvDefaults

\* the value a constructor binds to parameter `name` when called with kw
Arg(cls, kw, name) ==
    IF name \in DOMAIN kw THEN kw[name] ELSE Defaults(cls)[name]

\* dict(kw, key=value): the mapping kw with key set to value
WithKey(kw, key, value) ==
    [k \in (DOMAIN kw) \cup {key} |-> IF k = key THEN value ELSE kw[k]]


\* ---------------------------------------------------- phase environments
\* An environment instance.  `id` tells instances apart, `phase` is the
\* position of the constructor in _envs that built it, `kw` the keyword
\* arguments it was built with (seed included), `seed` the value its random
\* generator was last seeded with, `gridKey` the key lying on its grid,
\* `released` whether its renderer was told to close.  GiftsEnv.__init__
\* assigns _gift_reward only when gift_reward is not a list or tuple.
Blank(cls, kw, id, phase) ==
    [cls |-> cls, id |-> id, phase |-> phase, kw |-> kw,
     gift_reward |-> IF cls = "GiftsEnv" /\ ~Arg(cls, kw, "gift_reward").list
                     THEN GiftReward(Arg(cls, kw, "gift_reward").lo,
                                     Arg(cls, kw, "gift_reward").hi)
                     ELSE NoGiftReward,
     seed |-> Arg(cls, kw, "seed"),
     max_steps |-> Arg(cls, kw, "max_steps"),
     step_count |-> 0,
     carrying |-> NoObj,
     gridKey |-> NoObj,
     num_opened |-> 0,
     door_open |-> FALSE,
     door_locked |-> FALSE,
     door_num_times_opened |-> 0,
     reached_goal_count |-> 0,
     released |-> FALSE]

\* a reset that leaves the door of DoorKeyOptionalEnv unlocked
EnvResetDoorUnlocked(e) ==
    [e EXCEPT
        !.step_count = 0,
        !.carrying = IF e.cls \in {"DoorKeyOptionalEnv", "GoalKeyOptionalEnv"}
                     THEN Arg(e.cls, e.kw, "carrying")
                     ELSE NoObj,
        !.gridKey = IF e.cls \in {"KeyEnv", "KeyGoalEnv"}
                    THEN Key(Arg(e.cls, e.kw, "key_color"))
                    ELSE NoObj,
        !.num_opened = 0,
        !.door_open = FALSE,
        !.door_locked = FALSE,
        !.door_num_times_opened = 0,
        !.reached_goal_count = 0]

\* reset() of the environment e: MiniGridEnv.reset for KeyEnv and
\* KeyGoalEnv, the overriding reset of the three other classes
EnvReset(e) ==
    [e EXCEPT
        !.step_count = 0,
        !.carrying = IF e.cls \in {"DoorKeyOptionalEnv", "GoalKeyOptionalEnv"}
                     THEN Arg(e.cls, e.kw, "carrying")
                     ELSE NoObj,
        !.gridKey = IF e.cls \in {"KeyEnv", "KeyGoalEnv"}
                    THEN Key(Arg(e.cls, e.kw, "key_color"))
                    ELSE NoObj,
        !.num_opened = 0,
        !.door_open = FALSE,
        !.door_locked = (e.cls = "DoorKeyOptionalEnv"),
        !.door_num_times_opened = 0,
        !.reached_goal_count = 0]

\* the exception cls(**kw) raises, "no" when it raises none
ConstructError(cls, kw) ==
    IF ~((DOMAIN kw) \subseteq Params(cls))
    THEN "TypeError: unexpected keyword argument"
    ELSE IF cls = "GiftsEnv" /\ Arg(cls, kw, "num_objs") < 1 THEN "ValueError"
    ELSE "no"

\* cls(**kw): MiniGridEnv.__init__ seeds the generator and calls reset()
New(cls, kw, id, phase) == EnvReset(Blank(cls, kw, id, phase))

\* gen_obs(): what an observation lets the caller tell apart here
GenObs(e) ==
    [inst |-> e.id, cls |-> e.cls, step_count |-> e.step_count,
     carrying |-> e.carrying]
NoObs == [inst |-> 0 - 1, cls |-> "None", step_count |-> 0, carrying |-> NoObj]

EmptyInfo == [k \in {} |-> "None"]

\* the cells the agent of e can have in front of it
CanFace(e, front) ==
    CASE front = "key" -> e.gridKey # NoObj
      [] front = "goal" -> \/ e.cls \in {"GoalKeyOptionalEnv", "KeyGoalEnv"}
                           \/ e.cls = "DoorKeyOptionalEnv" /\ e.door_open
      [] front = "gift" -> e.cls = "GiftsEnv" /\ e.num_opened < Arg(e.cls, e.kw, "num_objs")
      [] front = "door" -> e.cls = "DoorKeyOptionalEnv"
      [] OTHER -> TRUE

\* _reward() of the class of e, evaluated after the step counter was
\* advanced to `count`: goal_reward (+ key_reward) - 0.9 * count / max_steps,
\* in reward units (exact: goal environments have max_steps = StepBudget
\* or 3 * StepBudget); KeyGoalEnv keeps MiniGridEnv's 1 - 0.9 * count /
\* max_steps
GoalReward(e, count) ==
    IF e.cls = "GoalKeyOptionalEnv"
    THEN Arg(e.cls, e.kw, "goal_reward")
         + (IF e.carrying.type = "key" THEN Arg(e.cls, e.kw, "key_reward") ELSE 0)
         - (9 * count * StepBudget) \div e.max_steps
    ELSE IF e.cls = "DoorKeyOptionalEnv"
    THEN Arg(e.cls, e.kw, "goal_reward") - (9 * count * StepBudget) \div e.max_steps
    ELSE IF e.cls = "KeyGoalEnv"
    THEN Tenths(10) - (9 * count * StepBudget) \div e.max_steps
    ELSE 0

\* MiniGridEnv.step(action) on e with `front` in the cell ahead: the
\* environment after the step, the (reward, done, info) it returns and
\* the exception it raises ("no": none)
MiniGridEnvStep(e, action, front) ==
    LET count == e.step_count + 1
        atGoal == action = "forward" /\ front = "goal"
        picks == action = "pickup" /\ front = "key" /\ e.carrying = NoObj
        drops == action = "drop" /\ front = "empty" /\ e.carrying # NoObj
        unlocks == /\ action = "toggle" /\ front = "door"
                   /\ \/ ~e.door_locked
                      \/ /\ e.carrying.type = "key"
                         /\ e.carrying.color = Arg(e.cls, e.kw, "door_color")
        opens == action = "toggle" /\ front = "gift"
        toggled == action = "toggle" /\ front \in {"door", "gift"}
        e1 == [e EXCEPT
                 !.step_count = count,
                 !.carrying = IF picks THEN e.gridKey
                              ELSE IF drops THEN NoObj ELSE e.carrying,
                 !.gridKey = IF picks THEN NoObj
                             ELSE IF drops THEN e.carrying ELSE e.gridKey,
                 !.door_open = IF unlocks THEN (e.door_locked \/ ~e.door_open)
                               ELSE e.door_open,
                 !.door_locked = e.door_locked /\ ~unlocks]
    IN  [e |-> e1,
         reward |-> IF atGoal THEN GoalReward(e, count) ELSE 0,
         done |-> atGoal \/ count >= e.max_steps,
         info |-> IF toggled
                  THEN [k \in {"toggle_succeeded"} |->
                            IF unlocks \/ opens THEN "True" ELSE "False"]
                  ELSE EmptyInfo,
         raised |-> "no"]

\* a KeyEnv.step that never ends the episode when the key is fetched
KeyEnvStepUntilTimeout(e, action, front) ==
    LET r == MiniGridEnvStep(e, action, front)
    IN  IF r.e.carrying.type = "key"
        THEN [e |-> r.e,
              reward |-> 0,
              done |-> r.done,
              info |-> WithKey(r.info, "carrying_key_color", r.e.carrying.color),
              raised |-> "no"]
        ELSE r

\* KeyEnv.step
KeyEnvStep(e, action, front) ==
    LET r == MiniGridEnvStep(e, action, front)
    IN  IF r.e.carrying.type = "key"
        THEN [e |-> r.e,
              reward |-> 0,
              done |-> r.done \/ Arg(e.cls, e.kw, "done_when_fetched"),
              info |-> WithKey(r.info, "carrying_key_color", r.e.carrying.color),
              raised |-> "no"]
        ELSE r

\* GiftsEnv.step.  np.random.uniform(*self._gift_reward) reads the
\* attribute: an AttributeError where __init__ never assigned it (the step
\* counter has advanced, the gift is not counted); where it holds [r, r],
\* uniform(r, r) is r
GiftsEnvStep(e, action, front) ==
    LET r == MiniGridEnvStep(e, action, front)
        opened == /\ action = "toggle"
                  /\ "toggle_succeeded" \in DOMAIN r.info
                  /\ r.info["toggle_succeeded"] = "True"
                  /\ front = "gift"
        n == r.e.num_opened + 1
    IN  IF opened /\ ~e.gift_reward.set
        THEN [e |-> r.e, reward |-> 0, done |-> FALSE, info |-> EmptyInfo,
              raised |-> "AttributeError: no attribute _gift_reward"]
        ELSE IF opened
        THEN [e |-> [r.e EXCEPT !.num_opened = n],
              reward |-> r.reward + e.gift_reward.lo,
              done |-> \/ r.done
                       \/ /\ Arg(e.cls, e.kw, "done_when_all_opened")
                          /\ n = Arg(e.cls, e.kw, "num_objs"),
              info |-> r.info,
              raised |-> "no"]
        ELSE r

\* DoorKeyOptionalEnv.step
DoorKeyOptionalEnvStep(e, action, front) ==
    LET r == MiniGridEnvStep(e, action, front)
        first == /\ action = "toggle"
                 /\ "toggle_succeeded" \in DOMAIN r.info
                 /\ r.info["toggle_succeeded"] = "True"
                 /\ front = "door"
                 /\ e.door_num_times_opened = 0
    IN  IF first
        THEN [r EXCEPT !.reward = r.reward + Arg(e.cls, e.kw, "door_reward"),
                       !.e.door_num_times_opened = e.door_num_times_opened + 1]
        ELSE r

\* GoalKeyOptionalEnv.step
GoalKeyOptionalEnvStep(e, action, front) ==
    LET r == MiniGridEnvStep(e, action, front)
    IN  IF /\ r.done
           /\ ~Arg(e.cls, e.kw, "done_when_goal_reached")
           /\ r.e.step_count < r.e.max_steps
        THEN [r EXCEPT !.reward = IF e.reached_goal_count = 0 THEN r.reward ELSE 0,
                       !.done = FALSE,
                       !.e.reached_goal_count = e.reached_goal_count + 1]
        ELSE r

\* KeyGoalEnv.step
KeyGoalEnvStep(e, action, front) ==
    LET r == MiniGridEnvStep(e, action, front)
    IN  IF r.e.carrying.type = "key" /\ r.done
        THEN [r EXCEPT !.reward = r.reward + Arg(e.cls, e.kw, "key_reward")]
        ELSE r

\* self.env.step(action): the step of the class of the active environment
EnvStep(e, action, front) ==
    CASE e.cls = "KeyEnv" -> KeyEnvStep(e, action, front)
      [] e.cls = "GiftsEnv" -> GiftsEnvStep(e, action, front)
      [] e.cls = "DoorKeyOptionalEnv" -> DoorKeyOptionalEnvStep(e, action, front)
      [] e.cls = "GoalKeyOptionalEnv" -> GoalKeyOptionalEnvStep(e, action, front)
      [] e.cls = "KeyGoalEnv" -> KeyGoalEnvStep(e, action, front)

\* ------------------------------------------------------ the compositions
\* keyword arguments of the registered classes; every max_steps the
\* classes set (36 .. 320) is scaled to StepBudget, max_steps=0 is kept
KeyKwargs ==
    [size |-> 6, key_color |-> "yellow", start_by_key |-> FALSE,
     max_steps |-> StepBudget]
DoorKwargs(size) ==
    [size |-> size, key_color |-> None, door_color |-> "yellow",
     max_steps |-> StepBudget]
GiftsKwargs(num_objs, gift_reward, max_steps) ==
    [size |-> 6, num_objs |-> num_objs, gift_reward |-> Scalar(gift_reward),
     max_steps |-> max_steps]
EmptyKwargs == [k \in {} |-> 0]

\* ThreePhaseDelayedReward.__init__: the fields it sets
ThreePhaseDelayedReward(key_kwargs, distractor_env, distractor_kwargs, delayed_reward_env, delayed_reward_kwargs, seed) ==
    [cls |-> "ThreePhaseDelayedReward",
     envs |-> <<"KeyEnv", distractor_env, delayed_reward_env>>,
     env_kwargs |-> <<key_kwargs, distractor_kwargs, delayed_reward_kwargs>>,
     wrapper_seed |-> seed,
     key_kwargs |-> key_kwargs]

\* KeyToGiftsToDoorKeyOptional.__init__: the fields it sets
KeyToGiftsToDoorKeyOptional(key_kwargs, gifts_kwargs, doorkeyoptional_kwargs, seed) ==
    IF Cardinality(DOMAIN gifts_kwargs) = 0
    THEN [cls |-> "KeyToGiftsToDoorKeyOptional",
          envs |-> <<"KeyEnv", "DoorKeyOptionalEnv">>,
          env_kwargs |-> <<key_kwargs, doorkeyoptional_kwargs>>,
          wrapper_seed |-> seed,
          key_kwargs |-> key_kwargs]
    ELSE [cls |-> "KeyToGiftsToDoorKeyOptional",
          envs |-> <<"KeyEnv", "GiftsEnv", "DoorKeyOptionalEnv">>,
          env_kwargs |-> <<key_kwargs, gifts_kwargs, doorkeyoptional_kwargs>>,
          wrapper_seed |-> seed,
          key_kwargs |-> key_kwargs]

\* delayed_reward_multiphase.py
TinyKeyGiftsDoorEnv ==
    ThreePhaseDelayedReward(
        KeyKwargs,
        "GiftsEnv", GiftsKwargs(3, Tenths(10), StepBudget),
        "DoorKeyOptionalEnv", DoorKwargs(8),
        DefaultWrapperSeed)

KeyNoDistractorDoorEnv ==
    ThreePhaseDelayedReward(
        KeyKwargs,
        "GiftsEnv", GiftsKwargs(2, Tenths(1), 0),
        "DoorKeyOptionalEnv", DoorKwargs(8),
        DefaultWrapperSeed)

TinyKeyGiftsGoalEnv ==
    ThreePhaseDelayedReward(
        WithKey(KeyKwargs, "done_when_fetched", FALSE),
        "GiftsEnv",
        WithKey(GiftsKwargs(3, Tenths(10), StepBudget), "done_when_all_opened", FALSE),
        "GoalKeyOptionalEnv",
        [size |-> 8, carrying |-> NoObj, max_steps |-> StepBudget,
         goal_reward |-> Tenths(10), key_reward |-> Tenths(40)],
        DefaultWrapperSeed)

\* key_to_gifts_to_door.py (its TinyKeyGiftsDoorEnv is named KtgTiny... here)
KtgTinyKeyGiftsDoorEnv ==
    KeyToGiftsToDoorKeyOptional(
        KeyKwargs, GiftsKwargs(3, Tenths(10), StepBudget), DoorKwargs(8),
        DefaultWrapperSeed)

MediumKeyGiftsDoorEnv ==
    KeyToGiftsToDoorKeyOptional(
        KeyKwargs, GiftsKwargs(2, Tenths(1), StepBudget), DoorKwargs(6),
        DefaultWrapperSeed)

KeyNoGiftsDoorEnv ==
    KeyToGiftsToDoorKeyOptional(
        KeyKwargs, EmptyKwargs, DoorKwargs(8), DefaultWrapperSeed)

Registered ==
    {TinyKeyGiftsDoorEnv, KeyNoDistractorDoorEnv, TinyKeyGiftsGoalEnv,
     KtgTinyKeyGiftsDoorEnv, MediumKeyGiftsDoorEnv, KeyNoGiftsDoorEnv}

\* ThreePhaseDelayedReward called directly, as its docstring describes it,
\* with the two phase classes of the repository whose constructors take
\* `carrying`; the first ends phase 0 when the key is fetched
KeyGoalGoal ==
    ThreePhaseDelayedReward(
        WithKey(KeyKwargs, "done_when_fetched", TRUE),
        "GoalKeyOptionalEnv",
        [size |-> 6, max_steps |-> StepBudget, goal_reward |-> Tenths(10)],
        "GoalKeyOptionalEnv",
        [size |-> 8, carrying |-> NoObj, max_steps |-> StepBudget,
         goal_reward |-> Tenths(10), key_reward |-> Tenths(40)],
        DefaultWrapperSeed + 1)

KeyDoorGoal ==
    ThreePhaseDelayedReward(
        KeyKwargs,
        "DoorKeyOptionalEnv",
        [size |-> 8, door_color |-> "yellow", max_steps |-> StepBudget],
        "GoalKeyOptionalEnv",
        [size |-> 8, max_steps |-> StepBudget, done_when_goal_reached |-> FALSE],
        DefaultWrapperSeed)

Compositions == Registered \cup {KeyGoalGoal, KeyDoorGoal}

\* ------------------------------------------------------------ the state
VARIABLES
    comp,          \* the constructor call that built the composer
    envs,          \* self._envs
    env_kwargs,    \* self._env_kwargs
    num_phases,    \* self.num_phases
    wrapper_seed,  \* self._wrapper_seed
    env_idx,       \* self._env_idx
    env,           \* self.env
    spaces,        \* self.action_space, observation_space, reward_range, metadata
    nextId,        \* identity of the next environment instance
    ret,           \* the outcome of the last call on the composer
    attr,          \* the outcome of the last attribute lookup, if it was the last call
    hist           \* what the run has done so far

vars == <<comp, envs, env_kwargs, num_phases, wrapper_seed, env_idx, env,
          spaces, nextId, ret, attr, hist>>

\* what the active environment's step returned, before the composer
\* touched it; `phase` and `inst` name the instance that took the step and
\* `carrying` is what it carried when its step returned
NoSub ==
    [obs |-> NoObs, reward |-> 0, done |-> FALSE, info |-> EmptyInfo,
     carrying |-> NoObj, phase |-> NoneIdx, inst |-> 0 - 1]

Outcome(call, raised, obs, reward, done, info, idx0, transition, sub) ==
    [call |-> call, raised |-> raised, obs |-> obs, reward |-> reward,
     done |-> done, info |-> info, idx0 |-> idx0, transition |-> transition,
     sub |-> sub]

\* descriptors taken from the instance that the first reset will build
SpacesOfNextInstance(e) ==
    [action_space |-> e.id + 1, observation_space |-> e.id + 1,
     reward_range |-> e.id + 1, metadata |-> e.id + 1]

\* the action_space, observation_space, reward_range and metadata objects
\* of the environment e, each named by the instance it belongs to
Spaces(e) ==
    [action_space |-> e.id, observation_space |-> e.id,
     reward_range |-> e.id, metadata |-> e.id]

\* the value of an attribute: an integer or an object
IntValue(n) == [int |-> n, obj |-> NoObj]
ObjValue(o) == [int |-> 0, obj |-> o]

\* no attribute was looked up since the last reset, step or seed call
NoAttr ==
    [name |-> <<"", "">>, raised |-> "no", value |-> IntValue(0), inst |-> 0 - 1]

\* the composer right after its construction; `counted` tells whether the
\* run keeps count of the step calls of its episodes
Constructed(counted) ==
    /\ comp \in Compositions
    /\ envs = comp.envs
    /\ env_kwargs = comp.env_kwargs
    /\ num_phases = Len(comp.envs)
    /\ wrapper_seed = comp.wrapper_seed
    /\ env_idx = NoneIdx
    /\ env = New("KeyEnv", comp.key_kwargs, 0, 0)
    /\ spaces = Spaces(env)
    /\ nextId = 1
    /\ ret = Outcome("init", "no", NoObs, 0, FALSE, EmptyInfo, NoneIdx, FALSE, NoSub)
    /\ attr = NoAttr
    /\ hist = [resets |-> 0, seedCalls |-> 0, seedSinceReset |-> FALSE,
               epSeed |-> NoneSeed, key0 |-> None, leaked |-> FALSE,
               counted |-> counted, running |-> FALSE, steps |-> 0,
               finished |-> FALSE]

Init == Constructed(FALSE)

\* self._envs[i] and self._env_kwargs[i], i counted from 0 as in the code
EnvAt(es, i) == es[i + 1]
KwAt(kws, i) == kws[i + 1]

\* ---------------------------------------------------------------- reset
\* reset that forgets the increment
NextSeedKept(seed) == seed

\* self._wrapper_seed += 1
NextSeed(seed) == seed + 1

\* the run's record once `self.env = ...` has dropped the instance e:
\* `leaked` tells that some dropped instance had not been released
Replaced(h, e) == [h EXCEPT !.leaked = @ \/ ~e.released]

\* reset() of either composer (the two bodies are the same statements)
ResetBody ==
    /\ hist.resets < MaxResets
    /\ env_idx' = 0
    /\ IF wrapper_seed = NoneSeed
       THEN \* None += 1
            /\ ret' = Outcome("reset", "TypeError: NoneType + int", NoObs, 0, FALSE,
                              EmptyInfo, env_idx, FALSE, NoSub)
            /\ hist' = [hist EXCEPT !.resets = @ + 1, !.running = FALSE]
            /\ UNCHANGED <<wrapper_seed, env, nextId>>
       ELSE LET seed == NextSeed(wrapper_seed)
                kw == WithKey(KwAt(env_kwargs, 0), "seed", seed)
                err == ConstructError(EnvAt(envs, 0), kw)
                e == EnvReset(New(EnvAt(envs, 0), kw, nextId, 0))
            IN  /\ wrapper_seed' = seed
                /\ IF err # "no"
                   THEN /\ ret' = Outcome("reset", err, NoObs, 0, FALSE, EmptyInfo,
                                          env_idx, FALSE, NoSub)
                        /\ hist' = [hist EXCEPT !.resets = @ + 1, !.running = FALSE]
                        /\ UNCHANGED <<env, nextId>>
                   ELSE /\ env' = e
                        /\ nextId' = nextId + 1
                        /\ ret' = Outcome("reset", "no", GenObs(e), 0, FALSE, EmptyInfo,
                                          env_idx, FALSE, NoSub)
                        /\ hist' = [Replaced(hist, env) EXCEPT
                                       !.resets = @ + 1,
                                       !.seedSinceReset = FALSE,
                                       !.epSeed = seed,
                                       !.key0 = None,
                                       !.running = hist.counted,
                                       !.steps = 0,
                                       !.finished = FALSE]
    /\ attr' = NoAttr
    /\ UNCHANGED <<comp, envs, env_kwargs, num_phases, spaces>>

ThreePhaseReset ==
    /\ comp.cls = "ThreePhaseDelayedReward"
    /\ ResetBody

KeyToGiftsReset ==
    /\ comp.cls = "KeyToGiftsToDoorKeyOptional"
    /\ ResetBody

\* ----------------------------------------------------------------- step
\* `done is True and self._env_idx < self.num_phases - 1`
Transits(done, idx, n) == done /\ idx < n - 1

\* a transition that skips a phase
NextIdxSkips(idx) == idx + 2

\* a transition that builds the phase it leaves once more
NextIdxStays(idx) == idx

\* self._env_idx += 1
NextIdx(idx) == idx + 1

\* a transition that reseeds (the next phase gets a seed of its own)
TransitionSeedAdvanced(seed) == seed + 1

\* seed=self._wrapper_seed in the constructor call of the next phase
TransitionSeed(seed) == seed

\* a transition that starts the new phase with a reward of zero
TransitionResultZeroReward(observation, reward) ==
    [obs |-> observation, reward |-> 0, done |-> FALSE, info |-> EmptyInfo]

\* `observation, done, info = self.env.reset(), False, {}` followed by
\* `return observation, reward, done, info`
TransitionResult(observation, reward) ==
    [obs |-> observation, reward |-> reward, done |-> FALSE, info |-> EmptyInfo]

\* a return that drops the info of the active environment
PassThroughNoInfo(sub) ==
    [obs |-> sub.obs, reward |-> sub.reward, done |-> sub.done, info |-> EmptyInfo]

\* `return observation, reward, done, info` when the transition branch was
\* not taken: what self.env.step(action) returned
PassThrough(sub) ==
    [obs |-> sub.obs, reward |-> sub.reward, done |-> sub.done, info |-> sub.info]

\* self.env.render(close=True)
RenderClose(e) == [e EXCEPT !.released = TRUE]

\* what the active environment's step r returned, as the composer sees it
SubResult(r) ==
    [obs |-> GenObs(r.e), reward |-> r.reward, done |-> r.done, info |-> r.info,
     carrying |-> r.e.carrying, phase |-> env.phase, inst |-> env.id]

\* the run's record after a step call: while an episode is `running` (the
\* run is counted and its last reset call returned), `steps` counts the
\* step calls made since that reset and `finished` tells that one of them
\* returned done = true
Stepped(h, done) ==
    IF h.running
    THEN [h EXCEPT !.steps = @ + 1, !.finished = @ \/ done]
    ELSE h

\* the colour of the key held when phase 0 ended, for the run's record
HeldKeyColor(e) == IF e.carrying.type = "key" THEN e.carrying.color ELSE None

\* the part of step() after `self.env.step(action)` returned r, with kws
\* the keyword arguments as the transition's carry statement leaves them
StepBody(r, kws) ==
    LET sub == SubResult(r)
    IN  IF r.done /\ env_idx = NoneIdx
        THEN \* None < int
             /\ env' = r.e
             /\ ret' = Outcome("step", "TypeError: NoneType < int", NoObs, 0, FALSE,
                               EmptyInfo, env_idx, FALSE, sub)
             /\ UNCHANGED <<env_kwargs, env_idx, nextId, hist>>
        ELSE IF Transits(r.done, env_idx, num_phases)
        THEN LET idx == NextIdx(env_idx)
                 inRange == idx < num_phases
                 kw == WithKey(KwAt(kws, idx), "seed", TransitionSeed(wrapper_seed))
                 err == IF inRange THEN ConstructError(EnvAt(envs, idx), kw)
                        ELSE "IndexError"
                 e == EnvReset(New(EnvAt(envs, idx), kw, nextId, idx))
                 old == RenderClose(r.e)
                 h0 == Stepped(hist, FALSE)
                 h == IF env_idx = 0
                      THEN [h0 EXCEPT !.key0 = HeldKeyColor(r.e)]
                      ELSE h0
             IN  /\ env_kwargs' = kws
                 /\ env_idx' = idx
                 /\ IF err # "no"
                    THEN /\ env' = old
                         /\ hist' = h
                         /\ ret' = Outcome("step", err, NoObs, 0, FALSE, EmptyInfo,
                                           env_idx, TRUE, sub)
                         /\ UNCHANGED nextId
                    ELSE LET t == TransitionResult(GenObs(e), r.reward)
                         IN  /\ env' = e
                             /\ hist' = Replaced(h, old)
                             /\ nextId' = nextId + 1
                             /\ ret' = Outcome("step", "no", t.obs, t.reward, t.done,
                                               t.info, env_idx, TRUE, sub)
        ELSE LET p == PassThrough(sub)
             IN  /\ env' = r.e
                 /\ ret' = Outcome("step", "no", p.obs, p.reward, p.done, p.info,
                                   env_idx, FALSE, sub)
                 /\ hist' = Stepped(hist, p.done)
                 /\ UNCHANGED <<env_kwargs, env_idx, nextId>>

\* a step the caller may make: the cell ahead is one the grid can show,
\* and the step counter of the active environment is below its cap
CanStep(front) ==
    /\ CanFace(env, front)
    /\ env.step_count < env.max_steps + MaxOverrun

\* a carry statement that leaves a `carrying` already in the template
\* alone (setdefault)
ThreePhaseCarryKeepsPreset(kws, idx, r) ==
    IF "carrying" \in DOMAIN kws[idx + 2]
    THEN kws
    ELSE [kws EXCEPT ![idx + 2] = WithKey(@, "carrying", r.e.carrying)]

\* self._env_kwargs[self._env_idx + 1]['carrying'] = self.carrying
ThreePhaseCarry(kws, idx, r) ==
    [kws EXCEPT ![idx + 2] = WithKey(@, "carrying", r.e.carrying)]

\* ThreePhaseDelayedReward.step
ThreePhaseStep(action, front) ==
    /\ comp.cls = "ThreePhaseDelayedReward"
    /\ CanStep(front)
    /\ LET r == EnvStep(env, action, front)
       IN  StepBody(r, IF Transits(r.done, env_idx, num_phases) /\ env_idx # NoneIdx
                       THEN ThreePhaseCarry(env_kwargs, env_idx, r)
                       ELSE env_kwargs)
    /\ attr' = NoAttr
    /\ UNCHANGED <<comp, envs, num_phases, wrapper_seed, spaces>>

\* info.get('carrying_key_color')
InfoGet(info, key) == IF key \in DOMAIN info THEN info[key] ELSE None

\* if self._env_idx == 0:
\*     self._env_kwargs[-1]['key_color'] = info.get('carrying_key_color')
KeyToGiftsCarry(kws, idx, r) ==
    IF idx = 0
    THEN [kws EXCEPT ![Len(kws)] =
              WithKey(@, "key_color", InfoGet(r.info, "carrying_key_color"))]
    ELSE kws

\* KeyToGiftsToDoorKeyOptional.step
KeyToGiftsStep(action, front) ==
    /\ comp.cls = "KeyToGiftsToDoorKeyOptional"
    /\ CanStep(front)
    /\ LET r == EnvStep(env, action, front)
       IN  StepBody(r, IF Transits(r.done, env_idx, num_phases) /\ env_idx # NoneIdx
                       THEN KeyToGiftsCarry(env_kwargs, env_idx, r)
                       ELSE env_kwargs)
    /\ attr' = NoAttr
    /\ UNCHANGED <<comp, envs, num_phases, wrapper_seed, spaces>>

\* ----------------------------------------------------------------- seed
\* the values a caller passes to seed(): an integer, or None (the default)
SeedValues == {CallerSeed, NoneSeed}

\* ThreePhaseDelayedReward.seed
ThreePhaseSeed(value) ==
    /\ comp.cls = "ThreePhaseDelayedReward"
    /\ hist.seedCalls < MaxSeedCalls
    /\ wrapper_seed' = value
    /\ env' = [env EXCEPT !.seed = value]
    /\ ret' = Outcome("seed", "no", NoObs, 0, FALSE, EmptyInfo, env_idx, FALSE, NoSub)
    /\ hist' = [hist EXCEPT !.seedCalls = @ + 1, !.seedSinceReset = TRUE]
    /\ attr' = NoAttr
    /\ UNCHANGED <<comp, envs, env_kwargs, num_phases, env_idx, spaces, nextId>>

\* KeyToGiftsToDoorKeyOptional.seed
KeyToGiftsSeed(value) ==
    /\ comp.cls = "KeyToGiftsToDoorKeyOptional"
    /\ hist.seedCalls < MaxSeedCalls
    /\ env' = [env EXCEPT !.seed = value]
    /\ ret' = Outcome("seed", "no", NoObs, 0, FALSE, EmptyInfo, env_idx, FALSE, NoSub)
    /\ hist' = [hist EXCEPT !.seedCalls = @ + 1, !.seedSinceReset = TRUE]
    /\ attr' = NoAttr
    /\ UNCHANGED <<comp, envs, env_kwargs, num_phases, wrapper_seed, env_idx,
                   spaces, nextId>>

\* ---------------------------------------------------------------- close
\* close() of either composer: `return self.env.close()`, which releases
\* the renderer of the active environment (called here when it has one)
CloseBody ==
    /\ ~env.released
    /\ env' = [env EXCEPT !.released = TRUE]
    /\ ret' = Outcome("close", "no", NoObs, 0, FALSE, EmptyInfo, env_idx, FALSE, NoSub)
    /\ attr' = NoAttr
    /\ UNCHANGED <<comp, envs, env_kwargs, num_phases, wrapper_seed, env_idx,
                   spaces, nextId, hist>>

ThreePhaseClose ==
    /\ comp.cls = "ThreePhaseDelayedReward"
    /\ CloseBody

KeyToGiftsClose ==
    /\ comp.cls = "KeyToGiftsToDoorKeyOptional"
    /\ CloseBody

\* ----------------------------------------------------- attribute lookup
\* an attribute name: its first character and the rest of it
Name(first, rest) == <<first, rest>>

\* the names a caller looks up on the composer: `carrying` (every
\* environment has it), `_carrying` (the door and goal environments have
\* it) and `_env_idx` (the composer has it)
LookupNames == {Name("c", "arrying"), Name("_", "carrying"), Name("_", "env_idx")}

\* those of them found on the composer itself: __getattr__ is not called
OwnNames == {Name("_", "env_idx")}

\* name.startswith('_')
StartsWithUnderscore(name) == name[1] = "_"

\* getattr(e, name)
EnvGetAttr(e, name) ==
    IF name = Name("c", "arrying")
    THEN [raised |-> "no", value |-> ObjValue(e.carrying), inst |-> e.id]
    ELSE IF /\ name = Name("_", "carrying")
            /\ e.cls \in {"DoorKeyOptionalEnv", "GoalKeyOptionalEnv"}
    THEN [raised |-> "no", value |-> ObjValue(Arg(e.cls, e.kw, "carrying")),
          inst |-> e.id]
    ELSE [raised |-> "AttributeError", value |-> IntValue(0), inst |-> e.id]

\* a __getattr__ that delegates every name
GetAttrDelegatesAll(name) == EnvGetAttr(env, name)

\* __getattr__(name) of either composer
GetAttr(name) ==
    IF StartsWithUnderscore(name)
    THEN [raised |-> "AttributeError: attempted to get missing private attribute",
          value |-> IntValue(0), inst |-> 0 - 1]
    ELSE EnvGetAttr(env, name)

\* the expression `composer.name`: the composer's own attribute when it
\* has one of that name, __getattr__(name) otherwise
LookupBody(name) ==
    /\ attr' = IF name \in OwnNames
               THEN [name |-> name, raised |-> "no", value |-> IntValue(env_idx),
                     inst |-> 0 - 1]
               ELSE LET g == GetAttr(name)
                    IN  [name |-> name, raised |-> g.raised, value |-> g.value,
                         inst |-> g.inst]
    /\ UNCHANGED <<comp, envs, env_kwargs, num_phases, wrapper_seed, env_idx, env,
                   spaces, nextId, ret, hist>>

ThreePhaseLookup(name) ==
    /\ comp.cls = "ThreePhaseDelayedReward"
    /\ LookupBody(name)

KeyToGiftsLookup(name) ==
    /\ comp.cls = "KeyToGiftsToDoorKeyOptional"
    /\ LookupBody(name)

\* ------------------------------------------------------ the specification
Next ==
    \/ ThreePhaseReset
    \/ KeyToGiftsReset
    \/ \E action \in Actions, front \in FrontCells : ThreePhaseStep(action, front)
    \/ \E action \in Actions, front \in FrontCells : KeyToGiftsStep(action, front)
    \/ \E value \in SeedValues : ThreePhaseSeed(value)
    \/ \E value \in SeedValues : KeyToGiftsSeed(value)

Spec == Init /\ [][Next]_vars

\* the same calls, and close() among them
NextClose ==
    \/ Next
    \/ ThreePhaseClose
    \/ KeyToGiftsClose

SpecClose == Init /\ [][NextClose]_vars

\* the same calls as Spec, the step calls of each episode counted
InitEpisode == Constructed(TRUE)

SpecEpisode == InitEpisode /\ [][Next]_vars

\* episodes with attribute lookups among their calls (seed() is left to
\* Spec: it changes no attribute that is looked up here)
NextLookup ==
    \/ ThreePhaseReset
    \/ KeyToGiftsReset
    \/ \E action \in Actions, front \in FrontCells : ThreePhaseStep(action, front)
    \/ \E action \in Actions, front \in FrontCells : KeyToGiftsStep(action, front)
    \/ \E name \in LookupNames : ThreePhaseLookup(name)
    \/ \E name \in LookupNames : KeyToGiftsLookup(name)

SpecLookup == Init /\ [][NextLookup]_vars

\* ------------------------------------- the environments on their own
\* step budget of an environment used on its own: the classes' 20 .. 640,
\* scaled so that 0.9 * count / max_steps stays exact in reward units
EnvBudget == 3 * StepBudget

\* a constructor call cls(**kw)
Call(cls, kw) == [cls |-> cls, kw |-> kw]

\* keygoal.py
KeyGoalEnv6x6 == Call("KeyGoalEnv", [size |-> 6, max_steps |-> EnvBudget])

\* fetchkey.py, and KeyEnv called with done_when_fetched=True
KeyEnv8x8 == Call("KeyEnv", [size |-> 8, max_steps |-> EnvBudget])
KeyEnvDoneWhenFetched ==
    Call("KeyEnv", [size |-> 8, done_when_fetched |-> TRUE, max_steps |-> EnvBudget])

\* opengifts.py, and GiftsEnv called with a range, as its docstring allows
GiftsEnv8x8N3Rew10 ==
    Call("GiftsEnv", [size |-> 8, num_objs |-> 3, gift_reward |-> Scalar(Tenths(100)),
                      max_steps |-> EnvBudget])
GiftsEnvRange ==
    Call("GiftsEnv", [size |-> 8, num_objs |-> 3,
                      gift_reward |-> Range(Tenths(10), Tenths(50)),
                      max_steps |-> EnvBudget])

\* doorkeyoptional.py, and DoorKeyOptionalEnv called with a key of another
\* colour than the door's
DoorHasKey8x8Env ==
    Call("DoorKeyOptionalEnv", [size |-> 8, carrying |-> Key("yellow"),
                                door_color |-> "yellow", max_steps |-> EnvBudget])
DoorNoKey8x8Env ==
    Call("DoorKeyOptionalEnv", [size |-> 8, carrying |-> NoObj,
                                max_steps |-> EnvBudget])
DoorOtherKeyEnv ==
    Call("DoorKeyOptionalEnv", [size |-> 8, carrying |-> Key("blue"),
                                door_color |-> "yellow", max_steps |-> EnvBudget])

\* goalkeyoptional.py
GoalKeyOptionalEnvNoKey6x6 ==
    Call("GoalKeyOptionalEnv", [size |-> 6, max_steps |-> EnvBudget,
                                carrying |-> NoObj])
GoalKeyOptionalEnvWithKey6x6 ==
    Call("GoalKeyOptionalEnv", [size |-> 6, max_steps |-> EnvBudget,
                                carrying |-> Key("yellow")])
GoalKeyOptionalEnvWithKeyFixedSteps6x6 ==
    Call("GoalKeyOptionalEnv", [size |-> 6, max_steps |-> EnvBudget,
                                carrying |-> Key("yellow"),
                                done_when_goal_reached |-> FALSE])

Environments ==
    {KeyGoalEnv6x6, KeyEnv8x8, KeyEnvDoneWhenFetched, GiftsEnv8x8N3Rew10,
     GiftsEnvRange, DoorHasKey8x8Env, DoorNoKey8x8Env, DoorOtherKeyEnv,
     GoalKeyOptionalEnvNoKey6x6, GoalKeyOptionalEnvWithKey6x6,
     GoalKeyOptionalEnvWithKeyFixedSteps6x6}

\* the outcome of the last call on the environment: for a step, the
\* action, the cell that was ahead, and what the step returned or raised
EnvOutcome(call, raised, action, front, reward, done, info) ==
    [call |-> call, raised |-> raised, action |-> action, front |-> front,
     reward |-> reward, done |-> done, info |-> info]

\* the environment right after its construction; `hist` counts the reset
\* calls and, per episode, the steps that moved the agent onto the goal
InitEnv ==
    /\ comp \in Environments
    /\ ConstructError(comp.cls, comp.kw) = "no"
    /\ envs = <<comp.cls>>
    /\ env_kwargs = <<comp.kw>>
    /\ num_phases = 1
    /\ wrapper_seed = Arg(comp.cls, comp.kw, "seed")
    /\ env_idx = 0
    /\ env = New(comp.cls, comp.kw, 0, 0)
    /\ spaces = Spaces(env)
    /\ nextId = 1
    /\ ret = EnvOutcome("init", "no", "None", "None", 0, FALSE, EmptyInfo)
    /\ attr = NoAttr
    /\ hist = [resets |-> 0, arrivals |-> 0]

\* env.reset()
EnvResetCall ==
    /\ hist.resets < MaxResets
    /\ env' = EnvReset(env)
    /\ ret' = EnvOutcome("reset", "no", "None", "None", 0, FALSE, EmptyInfo)
    /\ hist' = [resets |-> hist.resets + 1, arrivals |-> 0]
    /\ UNCHANGED <<comp, envs, env_kwargs, num_phases, wrapper_seed, env_idx,
                   spaces, nextId, attr>>

\* env.step(action) with `front` in the cell ahead
EnvStepCall(action, front) ==
    /\ CanStep(front)
    /\ LET r == EnvStep(env, action, front)
       IN  /\ env' = r.e
           /\ ret' = EnvOutcome("step", r.raised, action, front, r.reward,
                                r.done, r.info)
    /\ hist' = [hist EXCEPT !.arrivals =
                    IF action = "forward" /\ front = "goal" THEN @ + 1 ELSE @]
    /\ UNCHANGED <<comp, envs, env_kwargs, num_phases, wrapper_seed, env_idx,
                   spaces, nextId, attr>>

NextEnv ==
    \/ EnvResetCall
    \/ \E action \in Actions, front \in FrontCells : EnvStepCall(action, front)

SpecEnv == InitEnv /\ [][NextEnv]_vars

\* ------------------------------------------------------------ the claims
\* the last call was a step that returned to the caller
StepReturned == ret.call = "step" /\ ret.raised = "no"

\* a step call returns done = true exactly when, at the call,
\* phase_index = num_phases - 1 and the active environment's step returned
\* done = true
DoneIffLastIndex ==
    ret.call = "step" =>
        ((StepReturned /\ ret.done) <=> (ret.idx0 = num_phases - 1 /\ ret.sub.done))

\* C1: a step call returns done = true exactly when, at the call,
\* phase_index = num_phases - 1 and the active environment's own step
\* returned done = true; and a done = true that step returns to the caller
\* never comes from an instance of an earlier phase.
C1_DoneOnlyFromLastPhase ==
    /\ DoneIffLastIndex
    /\ (StepReturned /\ ret.done) => ret.sub.phase = num_phases - 1

\* the last call was a step that took the transition branch (the active
\* environment returned done = true while _env_idx < num_phases - 1)
StepTransited == ret.call = "step" /\ ret.transition

\* the exceptions a phase constructor raises on its configuration
ConfigurationErrors == {"TypeError: unexpected keyword argument", "ValueError"}

\* C2: a step made at phase_index = k < num_phases - 1 in which the active
\* phase returns done = true increments phase_index to k + 1, makes a newly
\* built and reset instance of phase k + 1 the active environment, and
\* returns done = false, info = {} and that instance's reset observation.
C2_TransitionActivatesNextPhase ==
    (/\ ret.call = "step"
     /\ ret.idx0 # NoneIdx
     /\ ret.idx0 < num_phases - 1
     /\ ret.sub.done)
        => /\ ret.raised = "no"
           /\ env_idx = ret.idx0 + 1
           /\ env.phase = ret.idx0 + 1
           /\ env.id # ret.sub.inst
           /\ env.step_count = 0
           /\ ret.done = FALSE
           /\ ret.info = EmptyInfo
           /\ ret.obs = GenObs(env)

\* C3: a step call that performs a phase transition returns the reward the
\* outgoing phase's step returned for that action.
C3_TransitionKeepsReward ==
    (StepReturned /\ ret.transition) => ret.reward = ret.sub.reward

\* a transition whose outgoing phase paid a reward has returned
C3_Witness ==
    /\ StepReturned
    /\ ret.transition
    /\ ret.sub.reward > 0
    /\ ret.obs.inst # ret.sub.inst

\* C4: after the first reset phase_index is in [0, num_phases); between two
\* resets it changes only by +1, only in a step call; once it is
\* num_phases - 1 it stays there until the next reset.
C4_PhaseIndexMonotone ==
    /\ [](hist.resets >= 1 => env_idx \in 0 .. (num_phases - 1))
    /\ [][hist'.resets = hist.resets =>
             \/ env_idx' = env_idx
             \/ env_idx' = env_idx + 1 /\ env_idx # NoneIdx /\ ret'.call = "step"]_vars
    /\ [][(hist'.resets = hist.resets /\ env_idx = num_phases - 1) =>
             env_idx' = num_phases - 1]_vars

\* the last phase, reached through both transitions, was stepped again
\* after it had returned the episode's done = true
C4_Witness ==
    /\ StepReturned
    /\ ret.idx0 = num_phases - 1
    /\ env_idx = num_phases - 1
    /\ env.phase = num_phases - 1
    /\ num_phases = 3
    /\ ret.done
    /\ env.step_count > env.max_steps

\* C5: in ThreePhaseDelayedReward, when phase k < num_phases - 1 ends with
\* the active environment carrying P, phase k + 1 is built with
\* carrying = P and the composer's `carrying` is P when the step returns.
C5_NextPhaseBuiltWithCarrying ==
    (comp.cls = "ThreePhaseDelayedReward" /\ StepTransited)
        => /\ ret.raised = "no"
           /\ env.phase = ret.idx0 + 1
           /\ "carrying" \in DOMAIN env.kw
           /\ env.kw.carrying = ret.sub.carrying
           /\ env.carrying = ret.sub.carrying

\* C6: in every registered composition no reset and no phase transition
\* raises a configuration error: each phase constructor accepts the keys
\* the sequencer passes to it.
C6_PhasesAcceptTheirConfiguration ==
    comp \in Registered => ret.raised \notin ConfigurationErrors

\* C7: in ThreePhaseDelayedReward with GiftsEnv as distractor, a key the
\* agent holds when a phase ends is held when the next phase starts.
C7_KeyKeptIntoNextPhase ==
    (/\ comp.cls = "ThreePhaseDelayedReward"
     /\ EnvAt(envs, 1) = "GiftsEnv"
     /\ StepTransited
     /\ ret.sub.carrying.type = "key")
        => /\ ret.raised = "no"
           /\ env.phase = ret.idx0 + 1
           /\ ret.obs.carrying = ret.sub.carrying

\* C8: in KeyToGiftsToDoorKeyOptional the last phase is built with
\* key_color = the colour of the key carried at the terminal step of
\* phase 0 (None when no key was carried).
C8_LastPhaseBuiltWithKeyColor ==
    (/\ comp.cls = "KeyToGiftsToDoorKeyOptional"
     /\ StepTransited
     /\ ret.idx0 = num_phases - 2
     /\ ret.sub.phase = num_phases - 2)
        => /\ ret.raised = "no"
           /\ env.phase = num_phases - 1
           /\ "key_color" \in DOMAIN env.kw
           /\ env.kw.key_color = hist.key0

C10_StepKeepsSeed ==
    /\ [][ret'.call = "step" => wrapper_seed' = wrapper_seed]_vars
    /\ []((hist.resets >= 1 /\ ~hist.seedSinceReset) =>
             /\ env.kw.seed = hist.epSeed
             /\ wrapper_seed = hist.epSeed)

\* a later phase, built by a transition of an episode without seed()
C10_Witness ==
    /\ StepReturned
    /\ ret.transition
    /\ env.phase = 2
    /\ ~hist.seedSinceReset
    /\ env.kw.seed = hist.epSeed

\* the value the last seed() call seeded the active environment with
SeedPassed == env.seed

\* C11: seed(value) sets running_seed to value and forwards value to the
\* active environment, without changing phase_index and without replacing
\* or resetting the active environment; the next reset then builds phase 0
\* with seed value + 1.  This holds for both composers.
C11_SeedSetsRunningSeed ==
    /\ [](ret.call = "seed" => wrapper_seed = SeedPassed)
    /\ [][hist'.seedCalls # hist.seedCalls =>
             /\ env_idx' = env_idx
             /\ env' = [env EXCEPT !.seed = env'.seed]]_vars
    /\ [][(ret.call = "seed" /\ hist'.resets # hist.resets) =>
             /\ ret'.raised = "no"
             /\ env'.phase = 0
             /\ env'.kw.seed = SeedPassed + 1]_vars

\* C12: reset, called in any composer state, sets phase_index to 0, makes
\* a newly built and freshly reset phase-0 instance the active environment
\* and returns that instance's observation.
C12_ResetStartsPhaseZero ==
    [][hist'.resets # hist.resets =>
          /\ ret'.raised = "no"
          /\ env_idx' = 0
          /\ env'.id = nextId
          /\ env'.phase = 0
          /\ env'.cls = EnvAt(envs, 0)
          /\ env'.step_count = 0
          /\ ret'.obs = GenObs(env')]_vars

\* C14: whenever the composer replaces its active environment, on reset and
\* on a phase transition inside step, the discarded instance has had its
\* rendering resource released (render(close=True) or close) before the
\* replacement is built: no instance is ever dropped without that release.
C14_ReleasedBeforeReplaced == ~hist.leaked

\* C15: looking up on the composer a name it does not itself own fails
\* with a missing-attribute error when the name starts with '_', and
\* otherwise returns the value of that attribute on the environment that is
\* active at the time of the lookup.
C15_LookupDelegatesPublicNames ==
    (attr # NoAttr /\ attr.name \notin OwnNames) =>
        IF attr.name[1] = "_"
        THEN attr.raised =
                 "AttributeError: attempted to get missing private attribute"
        ELSE /\ attr.raised = "no"
             /\ attr.inst = env.id
             /\ attr.name = Name("c", "arrying") => attr.value = ObjValue(env.carrying)

\* `carrying` read right after the transition out of a phase that ended
\* with a key held is the new phase's (nothing), not the previous phase's
C15_Witness ==
    /\ StepReturned
    /\ ret.transition
    /\ ret.sub.carrying.type = "key"
    /\ attr.name = Name("c", "arrying")
    /\ attr.raised = "no"
    /\ attr.value = ObjValue(NoObj)
    /\ attr.inst = env.id
    /\ attr.inst # ret.sub.inst

\* C16: the composer's action_space, observation_space, reward_range and
\* metadata are those of the phase-0 instance built in the constructor
\* (instance 0), and no later reset, step, phase transition or seed call
\* changes them, even when a later phase has a different grid size.
C16_DescriptorsOfFirstInstance ==
    /\ spaces.action_space = 0
    /\ spaces.observation_space = 0
    /\ spaces.reward_range = 0
    /\ spaces.metadata = 0

\* a later phase on a grid of another size is active, after a seed call
\* and a reset, and the descriptors are still those of instance 0
C16_Witness ==
    /\ StepReturned
    /\ ret.transition
    /\ env.phase >= 1
    /\ env.id > 1
    /\ Arg(env.cls, env.kw, "size") # Arg("KeyEnv", comp.key_kwargs, "size")
    /\ hist.seedCalls >= 1
    /\ spaces.action_space = 0
    /\ spaces.observation_space = 0

\* C17: the distractor of KeyNoDistractorDoorEnv, configured with
\* max_steps = 0, is still built and reset at the transition into it,
\* returns done = true on the first step forwarded to it, and the composer
\* makes its normal transition on that same step call, passing the step's
\* reward through: the phase is active for exactly one caller step.
C17_ZeroBudgetPhaseTakesOneStep ==
    comp = KeyNoDistractorDoorEnv =>
        /\ (StepTransited /\ ret.idx0 = 0) =>
               /\ ret.raised = "no"
               /\ env.phase = 1
               /\ env.max_steps = 0
               /\ env.step_count = 0
        /\ (ret.call = "step" /\ ret.sub.phase = 1) =>
               /\ ret.sub.obs.step_count = 1
               /\ ret.sub.done
               /\ ret.transition
               /\ ret.raised = "no"
               /\ env.phase = 2
               /\ ret.reward = ret.sub.reward

\* C18: a step call in which the active phase returns done = false, or in
\* which the active phase is the last one (phase_index = num_phases - 1,
\* the test the step makes), returns the phase's
\* (observation, reward, done, info) unmodified and leaves phase_index,
\* running_seed, the identity of the active environment and every stored
\* phase configuration unchanged.
C18_PassThroughStep ==
    [][(/\ ret'.call = "step"
        /\ \/ ~ret'.sub.done
           \/ env_idx = num_phases - 1) =>
          /\ ret'.raised = "no"
          /\ ret'.obs = ret'.sub.obs
          /\ ret'.reward = ret'.sub.reward
          /\ ret'.done = ret'.sub.done
          /\ ret'.info = ret'.sub.info
          /\ env_idx' = env_idx
          /\ wrapper_seed' = wrapper_seed
          /\ env'.id = env.id
          /\ env'.phase = env.phase
          /\ ret'.obs.inst = env.id
          /\ envs' = envs
          /\ env_kwargs' = env_kwargs]_vars

\* the last phase has returned done = true with a reward, and the step
\* call returned both to the caller
C18_Witness ==
    /\ StepReturned
    /\ ~ret.transition
    /\ ret.idx0 = num_phases - 1
    /\ ret.sub.phase = num_phases - 1
    /\ ret.sub.done
    /\ ret.done
    /\ ret.reward > 0
    /\ ret.obs.inst = env.id

\* keyword arguments without the seed the composer adds to each call
SansSeed(kw) == [k \in (DOMAIN kw) \ {"seed"} |-> kw[k]]

\* C19: the carry value a non-first phase is built with is the value
\* written by a transition of the current episode: in ThreePhaseDelayedReward
\* `carrying` is what the outgoing phase carried at the transition into the
\* phase, in KeyToGiftsToDoorKeyOptional `key_color` of the last phase is
\* the colour of the key held when phase 0 of this episode ended, whatever
\* the template or an earlier episode had put there; and phase 0 is never
\* built with a carry value (its template is never written).
C19_CarryValueIsCurrent ==
    /\ (comp.cls = "ThreePhaseDelayedReward" /\ StepTransited) =>
           /\ "carrying" \in DOMAIN KwAt(env_kwargs, env_idx)
           /\ KwAt(env_kwargs, env_idx).carrying = ret.sub.carrying
           /\ StepReturned => SansSeed(env.kw) = KwAt(env_kwargs, env_idx)
    /\ (comp.cls = "KeyToGiftsToDoorKeyOptional" /\ StepTransited) =>
           /\ KwAt(env_kwargs, num_phases - 1).key_color = hist.key0
           /\ (StepReturned /\ env.phase = num_phases - 1) => env.kw.key_color = hist.key0
    /\ KwAt(env_kwargs, 0) = comp.key_kwargs
    /\ env.phase = 0 =>
           /\ "carrying" \notin DOMAIN env.kw
           /\ SansSeed(env.kw) = comp.key_kwargs

\* in a second episode, a phase whose template came with carrying = None
\* has been built with the key the outgoing phase carried
C19_Witness ==
    /\ comp.cls = "ThreePhaseDelayedReward"
    /\ hist.resets = 2
    /\ StepReturned
    /\ ret.transition
    /\ "carrying" \in DOMAIN KwAt(comp.env_kwargs, env.phase)
    /\ KwAt(comp.env_kwargs, env.phase).carrying = NoObj
    /\ env.kw.carrying.type = "key"
    /\ env.kw.carrying = ret.sub.carrying

\* C20: after the first reset, and after every reset or step call,
\* including one that raised an error while building or resetting the next
\* phase, the active environment is an instance of the phase at position
\* phase_index.
C20_ActiveIsPhaseAtIndex ==
    hist.resets >= 1 =>
        /\ env_idx \in 0 .. (num_phases - 1)
        /\ env.phase = env_idx
        /\ env.cls = EnvAt(envs, env_idx)

\* the most step calls phase i can take before it returns done = true:
\* max(1, max_steps)
PhaseBudget(i) ==
    LET m == Arg(EnvAt(envs, i), KwAt(comp.env_kwargs, i), "max_steps")
    IN  IF m < 1 THEN 1 ELSE m

\* the sum of PhaseBudget over the phases 0 .. i
RECURSIVE BudgetUpTo(_)
BudgetUpTo(i) == IF i < 0 THEN 0 ELSE PhaseBudget(i) + BudgetUpTo(i - 1)

\* C21: after reset, step calls return done = true after at most the sum
\* over the phases of max(1, max_steps) calls; a transition never re-enters
\* an earlier phase and never stalls the episode: while no done = true was
\* returned, the calls made are within the budgets of the phases up to
\* phase_index.
C21_EpisodeEndsWithinBudget ==
    /\ []((hist.running /\ hist.steps >= BudgetUpTo(num_phases - 1)) =>
             hist.finished)
    /\ []((hist.running /\ ~hist.finished) => hist.steps < BudgetUpTo(env_idx))
    /\ [][(hist.running /\ hist'.steps = hist.steps + 1) =>
             /\ env_idx' >= env_idx
             /\ env'.phase >= env.phase]_vars

\* an episode of three phases in which every phase used up its budget and
\* no call raised: the last budgeted step call returned done = true
C21_Witness ==
    /\ StepReturned
    /\ hist.running
    /\ num_phases = 3
    /\ env.phase = 2
    /\ hist.steps = BudgetUpTo(2)
    /\ ret.sub.obs.step_count = env.max_steps
    /\ ret.done
    /\ hist.finished

\* the last call was a step of an environment of class cls
EnvStepped(cls) == ret.call = "step" /\ env.cls = cls

\* the last step moved the agent onto the goal
Arrived == ret.action = "forward" /\ ret.front = "goal"

\* C22: KeyGoalEnv adds key_reward to a step's reward exactly when the step
\* moves the agent onto the goal while it carries a key: such a step
\* returns the goal reward plus key_reward, an arrival without a key the
\* goal reward, and every other step (the pick-up step, a step that ends
\* the episode by timeout away from the goal) returns 0.
C22_KeyRewardOnlyAtGoal ==
    EnvStepped("KeyGoalEnv") =>
        ret.reward =
            (IF Arrived THEN GoalReward(env, env.step_count) ELSE 0)
            + (IF Arrived /\ env.carrying.type = "key"
               THEN Arg(env.cls, env.kw, "key_reward") ELSE 0)

\* C23: in GoalKeyOptionalEnv with done_when_goal_reached=False, up to and
\* including the step at which step_count reaches max_steps, the first
\* arrival at the goal in an episode returns the goal reward, every later
\* arrival returns reward 0, and done = true is returned only at the
\* timeout step.
C23_GoalRewardOnlyFirstArrival ==
    (/\ EnvStepped("GoalKeyOptionalEnv")
     /\ ~Arg(env.cls, env.kw, "done_when_goal_reached")
     /\ env.step_count <= env.max_steps) =>
        /\ (Arrived /\ hist.arrivals = 1) =>
               ret.reward = GoalReward(env, env.step_count)
        /\ (Arrived /\ hist.arrivals > 1) => ret.reward = 0
        /\ ret.done => env.step_count = env.max_steps

\* the key the environment was built to start with is of its door's colour
HasDoorKey ==
    Arg(env.cls, env.kw, "carrying") = Key(Arg(env.cls, env.kw, "door_color"))

\* C24: in DoorKeyOptionalEnv an agent that does not carry a key of the
\* door's colour after reset never reaches the goal: the door is never
\* opened, no step moves the agent onto the goal, every step returns
\* reward 0, and done = true is returned only by timeout.
C24_NoKeyNoGoal ==
    (env.cls = "DoorKeyOptionalEnv" /\ ~HasDoorKey) =>
        /\ ~env.door_open
        /\ hist.arrivals = 0
        /\ ret.call = "step" =>
               /\ ret.reward = 0
               /\ ret.done => env.step_count >= env.max_steps

\* an agent carrying a key of another colour tried the door, in vain, on
\* the step that ended the episode by timeout
C24_Witness ==
    /\ EnvStepped("DoorKeyOptionalEnv")
    /\ ~HasDoorKey
    /\ env.carrying.type = "key"
    /\ ret.action = "toggle"
    /\ ret.front = "door"
    /\ ret.info["toggle_succeeded"] = "False"
    /\ ret.done
    /\ env.step_count = env.max_steps

\* C25: KeyEnv returns reward 0 on every step; with done_when_fetched=True
\* it returns done = true on every step after which the agent carries a
\* key, with done_when_fetched=False only when step_count has reached
\* max_steps; info holds carrying_key_color, the colour of the carried key,
\* exactly on the steps after which the agent carries a key.
C25_KeyEnvStep ==
    EnvStepped("KeyEnv") =>
        /\ ret.raised = "no"
        /\ ret.reward = 0
        /\ (Arg(env.cls, env.kw, "done_when_fetched") /\ env.carrying.type = "key")
               => ret.done
        /\ (~Arg(env.cls, env.kw, "done_when_fetched") /\ ret.done)
               => env.step_count >= env.max_steps
        /\ ("carrying_key_color" \in DOMAIN ret.info) <=> (env.carrying.type = "key")
        /\ env.carrying.type = "key" =>
               ret.info["carrying_key_color"] = env.carrying.color

\* the key was fetched before the step budget was spent, in an environment
\* that ends the episode when it is
C25_Witness ==
    /\ EnvStepped("KeyEnv")
    /\ Arg(env.cls, env.kw, "done_when_fetched")
    /\ ret.action = "pickup"
    /\ ret.front = "key"
    /\ env.carrying = Key(Arg(env.cls, env.kw, "key_color"))
    /\ env.step_count < env.max_steps
    /\ ret.done
    /\ ret.info["carrying_key_color"] = Arg(env.cls, env.kw, "key_color")

\* the last step opened a gift
OpenedGift == ret.action = "toggle" /\ ret.front = "gift"

\* C26: GiftsEnv is constructed without error from a scalar and from a
\* list/tuple gift_reward, no step raises, and a step that opens a gift
\* adds r for a scalar r and a value of [min, max) for a list/tuple.
C26_GiftRewardAccepted ==
    env.cls = "GiftsEnv" =>
        /\ ConstructError(env.cls, env.kw) = "no"
        /\ ret.call = "step" =>
               /\ ret.raised = "no"
               /\ OpenedGift =>
                      LET g == Arg(env.cls, env.kw, "gift_reward")
                      IN  IF g.list
                          THEN g.lo <= ret.reward /\ ret.reward < g.hi
                          ELSE ret.reward = g.lo

====
